---- MODULE Spec2Model ----
(***************************************************************************)
(* Success stories (successstories/models.py): Story.clean, and the two    *)
(* post_save receivers update_successstories_supernav and                  *)
(* send_email_to_psf.                                                      *)
(*                                                                         *)
(* Three specifications over the same state:                               *)
(*   Spec       sequential saves, each save one atomic step;               *)
(*   SpecClean  Story.clean applied to one candidate record;               *)
(*   SpecConc   two saves running concurrently, one step per access to     *)
(*              shared state (box table, purge log, mail transport).       *)
(***************************************************************************)
EXTENDS Integers, Sequences, FiniteSets, TLC

VARIABLES
    stories,   \* the Story table: slug -> persisted record, or NoStory
    boxes,     \* the Box table: a set of rows [id, label, content]
    purges,    \* the paths handed to fastly purge_url, in call order
    emails,    \* the email.send() calls, in order, each with its outcome
    history,   \* the calls made so far, each with its arguments and result
    pc,        \* SpecConc: the position of each concurrent save
    local,     \* SpecConc: the locals of each concurrent save
    writes     \* SpecConc: the processes that ran box.save(), in order

vars == <<stories, boxes, purges, emails, history, pc, local, writes>>

----------------------------------------------------------------------------
(* Bounds of the model *)

\* sequential saves explored by Spec
MaxSaves == 2
\* SpecClean tries the weights -Margin .. MaxWeight + Margin
Margin == 2

----------------------------------------------------------------------------
(* Constants of the program *)

PSF_TO_EMAILS == <<"ewa@python.org", "berker.peksag@gmail.com">>
DEFAULT_FROM_EMAIL == "settings.DEFAULT_FROM_EMAIL"
MaxWeight == 100
BoxLabel == "supernav-python-success-stories"
BoxPath == "/box/supernav-python-success-stories/"
SubjectPrefix == "New success story submission: "

\* no row: the all-default record with the empty slug
NoStory ==
    [name |-> "", slug |-> "", author_email |-> "",
     is_published |-> FALSE, featured |-> FALSE, weight |-> 0]
Slugs == {"acme", "zope"}
NameOf(slug) == IF slug = "acme" THEN "Acme" ELSE "Zope"
AuthorEmailOf(slug) == IF slug = "acme" THEN "ann@acme.example" ELSE "zed@zope.example"

\* A Story instance: the fields the validation and the receivers read.
Instance(slug, pub, feat, w) ==
    [name |-> NameOf(slug), slug |-> slug, author_email |-> AuthorEmailOf(slug),
     is_published |-> pub, featured |-> feat, weight |-> w]

\* weights a save is tried with: zero, the largest allowed, one above it
SaveWeights == {0, MaxWeight, MaxWeight + 1}
\* weights clean is tried with
ProbeWeights == (0 - Margin) .. (MaxWeight + Margin)

----------------------------------------------------------------------------
(* Story *)

\* reverse('success_story_detail', kwargs={'slug': self.slug})
get_absolute_url(instance) == "reverse(success_story_detail, slug=" \o instance.slug \o ")"

\* variant: clean without the weight > 100 rule
clean_no_upper(instance) ==
    IF instance.featured /\ instance.weight = 0
    THEN "Cannot be a featured story with weight==0"
    ELSE "ok"

\* Story.clean: the ValidationError message, or "ok" when it returns normally
clean(instance) ==
    IF instance.featured /\ instance.weight = 0
    THEN "Cannot be a featured story with weight==0"
    ELSE IF instance.weight > MaxWeight
    THEN "weight cannot exceed 100"
    ELSE "ok"

----------------------------------------------------------------------------
(* Collaborators: template renderer, Box table, purge and mail transports *)

render_to_string(template, instance) == [template |-> template, story |-> instance]
Render(instance) == render_to_string("successstories/supernav.html", instance)

EmptyContent == [template |-> "", story |-> NoStory]

NextBoxId(bx) == Cardinality(bx) + 1

\* Box.objects.get_or_create(label=...): the row with the label, created when absent
get_or_create(bx, label) ==
    IF \E b \in bx : b.label = label
    THEN [boxes |-> bx, box |-> CHOOSE b \in bx : b.label = label]
    ELSE LET new == [id |-> NextBoxId(bx), label |-> label, content |-> EmptyContent]
         IN  [boxes |-> bx \cup {new}, box |-> new]

\* box.save(): the row with the box's primary key is overwritten
box_save(bx, box) == {b \in bx : b.id # box.id} \cup {box}

purge_url(pg, path) == Append(pg, path)

\* EmailMessage(...) of send_email_to_psf
Message(instance) ==
    [subject |-> SubjectPrefix \o instance.name,
     body |-> [name |-> instance.name, author_email |-> instance.author_email],
     from_email |-> DEFAULT_FROM_EMAIL,
     to |-> PSF_TO_EMAILS,
     headers |-> [ReplyTo |-> instance.author_email],
     content_subtype |-> "html"]

\* email.send(): the call is logged with its outcome
email_send(em, msg, transportOk) == Append(em, [msg |-> msg, delivered |-> transportOk])

----------------------------------------------------------------------------
(* post_save receivers, on the world w = [boxes, purges] *)

\* variant: the receiver without its raw check
supernav_ignores_raw(w, instance, raw) ==
    LET w1 == IF instance.is_published /\ instance.featured
              THEN LET content == Render(instance)
                       got == get_or_create(w.boxes, BoxLabel)
                       box == [got.box EXCEPT !.content = content]
                   IN  [boxes |-> box_save(got.boxes, box),
                        purges |-> purge_url(w.purges, BoxPath)]
              ELSE w
    IN  IF instance.is_published
        THEN [w1 EXCEPT !.purges = purge_url(w1.purges, get_absolute_url(instance))]
        ELSE w1

\* variant: the box is updated for a featured record, published or not
supernav_featured_only(w, instance, raw) ==
    IF raw THEN w
    ELSE
    LET w1 == IF instance.featured
              THEN LET content == Render(instance)
                       got == get_or_create(w.boxes, BoxLabel)
                       box == [got.box EXCEPT !.content = content]
                   IN  [boxes |-> box_save(got.boxes, box),
                        purges |-> purge_url(w.purges, BoxPath)]
              ELSE w
    IN  IF instance.is_published
        THEN [w1 EXCEPT !.purges = purge_url(w1.purges, get_absolute_url(instance))]
        ELSE w1

\* variant: the detail URL is purged before the box is updated and purged
supernav_purge_page_first(w, instance, raw) ==
    IF raw THEN w
    ELSE
    LET w1 == IF instance.is_published
              THEN [w EXCEPT !.purges = purge_url(w.purges, get_absolute_url(instance))]
              ELSE w
    IN  IF instance.is_published /\ instance.featured
        THEN LET content == Render(instance)
                 got == get_or_create(w1.boxes, BoxLabel)
                 box == [got.box EXCEPT !.content = content]
             IN  [boxes |-> box_save(got.boxes, box),
                  purges |-> purge_url(w1.purges, BoxPath)]
        ELSE w1

\* variant: the box path is purged for every published record
supernav_purge_box_always(w, instance, raw) ==
    IF raw THEN w
    ELSE
    LET w1 == IF instance.is_published /\ instance.featured
              THEN LET content == Render(instance)
                       got == get_or_create(w.boxes, BoxLabel)
                       box == [got.box EXCEPT !.content = content]
                   IN  [boxes |-> box_save(got.boxes, box),
                        purges |-> w.purges]
              ELSE w
    IN  IF instance.is_published
        THEN [w1 EXCEPT !.purges =
                 purge_url(purge_url(w1.purges, BoxPath), get_absolute_url(instance))]
        ELSE w1

\* update_successstories_supernav(sender, instance, signal, created, raw=...)
update_successstories_supernav(w, instance, raw) ==
    IF raw THEN w
    ELSE
    LET w1 == IF instance.is_published /\ instance.featured
              THEN LET content == Render(instance)
                       got == get_or_create(w.boxes, BoxLabel)
                       box == [got.box EXCEPT !.content = content]
                   IN  [boxes |-> box_save(got.boxes, box),
                        purges |-> purge_url(w.purges, BoxPath)]
              ELSE w
    IN  IF instance.is_published
        THEN [w1 EXCEPT !.purges = purge_url(w1.purges, get_absolute_url(instance))]
        ELSE w1

\* variant: only the first submission is notified
send_email_once(em, instance, raw, transportOk) ==
    IF raw THEN [emails |-> em, raised |-> FALSE]
    ELSE IF ~instance.is_published /\ em = <<>>
    THEN [emails |-> email_send(em, Message(instance), transportOk),
          raised |-> ~transportOk]
    ELSE [emails |-> em, raised |-> FALSE]

\* variant: the transport error is swallowed (fail_silently)
send_email_fail_silently(em, instance, raw, transportOk) ==
    IF raw THEN [emails |-> em, raised |-> FALSE]
    ELSE IF ~instance.is_published
    THEN [emails |-> email_send(em, Message(instance), transportOk),
          raised |-> FALSE]
    ELSE [emails |-> em, raised |-> FALSE]

\* send_email_to_psf(sender, instance, signal, created, raw=...): the send log
\* after the receiver, and whether the transport's error left the receiver
send_email_to_psf(em, instance, raw, transportOk) ==
    IF raw THEN [emails |-> em, raised |-> FALSE]
    ELSE IF ~instance.is_published
    THEN [emails |-> email_send(em, Message(instance), transportOk),
          raised |-> ~transportOk]
    ELSE [emails |-> em, raised |-> FALSE]

----------------------------------------------------------------------------
(* Sequential saves *)

Call(op, instance, raw, result) ==
    [op |-> op, instance |-> instance, raw |-> raw, result |-> result]

NoLocal == [instance |-> NoStory, raw |-> FALSE, content |-> EmptyContent,
            box |-> [id |-> 0, label |-> "", content |-> EmptyContent],
            result |-> "none"]

Procs == {1, 2}

InitStore ==
    /\ stories = [s \in Slugs |-> NoStory]
    /\ purges = <<>>
    /\ emails = <<>>
    /\ history = <<>>
    /\ pc = [p \in Procs |-> "idle"]
    /\ local = [p \in Procs |-> NoLocal]
    /\ writes = <<>>

Init ==
    /\ InitStore
    /\ boxes = {}

\* One save of a Story: validation, then the INSERT/UPDATE, then the post_save
\* receivers in the order they are connected.  An exception leaving a receiver
\* leaves the save after the row is stored.
Save(slug, pub, feat, w, raw, transportOk) ==
    LET instance == Instance(slug, pub, feat, w) IN
    /\ Len(history) < MaxSaves
    /\ IF clean(instance) # "ok"
       THEN /\ history' = Append(history, Call("save", instance, raw, "ValidationError"))
            /\ UNCHANGED <<stories, boxes, purges, emails>>
       ELSE LET w1 == update_successstories_supernav(
                          [boxes |-> boxes, purges |-> purges], instance, raw)
                e1 == send_email_to_psf(emails, instance, raw, transportOk)
            IN  /\ stories' = [stories EXCEPT ![slug] = instance]
                /\ boxes' = w1.boxes
                /\ purges' = w1.purges
                /\ emails' = e1.emails
                /\ history' = Append(history, Call("save", instance, raw,
                                  IF e1.raised THEN "TransportError" ELSE "ok"))
    /\ UNCHANGED <<pc, local, writes>>

Next ==
    \E slug \in Slugs, pub \in BOOLEAN, feat \in BOOLEAN, w \in SaveWeights,
       raw \in BOOLEAN, transportOk \in BOOLEAN :
        Save(slug, pub, feat, w, raw, transportOk)

Spec == Init /\ [][Next]_vars

----------------------------------------------------------------------------
(* Story.clean on one candidate record *)

CleanCall(instance) ==
    /\ history = <<>>
    /\ history' = <<Call("clean", instance, FALSE, clean(instance))>>
    /\ UNCHANGED <<stories, boxes, purges, emails, pc, local, writes>>

NextClean ==
    \E slug \in Slugs, pub \in BOOLEAN, feat \in BOOLEAN, w \in ProbeWeights :
        CleanCall(Instance(slug, pub, feat, w))

SpecClean == Init /\ [][NextClean]_vars

----------------------------------------------------------------------------
(* Two concurrent saves: process 1 saves "acme", process 2 saves "zope" *)

SlugOfProc(p) == IF p = 1 THEN "acme" ELSE "zope"

\* the story an earlier save rendered into the box
OldStory ==
    [name |-> "Old", slug |-> "old", author_email |-> "old@old.example",
     is_published |-> TRUE, featured |-> TRUE, weight |-> MaxWeight]
OldBox == [id |-> 1, label |-> BoxLabel, content |-> Render(OldStory)]

InitConc ==
    /\ InitStore
    /\ boxes \in {{}, {OldBox}}

Finish(p, result) ==
    /\ pc' = [pc EXCEPT ![p] = "done"]
    /\ local' = [local EXCEPT ![p].result = result]

Goto(p, label) == pc' = [pc EXCEPT ![p] = label]

\* validation and INSERT/UPDATE of the row, up to the first access a receiver
\* makes to shared state
Begin(p, pub, feat, w, raw) ==
    LET instance == Instance(SlugOfProc(p), pub, feat, w) IN
    /\ pc[p] = "idle"
    /\ IF clean(instance) # "ok"
       THEN /\ pc' = [pc EXCEPT ![p] = "done"]
            /\ local' = [local EXCEPT ![p] = [NoLocal EXCEPT !.instance = instance,
                             !.raw = raw, !.result = "ValidationError"]]
            /\ UNCHANGED stories
       ELSE /\ stories' = [stories EXCEPT ![instance.slug] = instance]
            /\ local' = [local EXCEPT ![p] = [NoLocal EXCEPT !.instance = instance,
                             !.raw = raw,
                             !.content = IF ~raw /\ pub /\ feat
                                         THEN Render(instance) ELSE EmptyContent,
                             !.result = IF raw THEN "ok" ELSE "none"]]
            /\ pc' = [pc EXCEPT ![p] =
                         IF raw THEN "done"
                         ELSE IF pub /\ feat THEN "get_or_create"
                         ELSE IF pub THEN "purge_page"
                         ELSE "send_email"]
    /\ UNCHANGED <<boxes, purges, emails, history, writes>>

GetOrCreate(p) ==
    /\ pc[p] = "get_or_create"
    /\ LET got == get_or_create(boxes, BoxLabel)
       IN  /\ boxes' = got.boxes
           /\ local' = [local EXCEPT ![p].box = got.box]
    /\ Goto(p, "box_save")
    /\ UNCHANGED <<stories, purges, emails, history, writes>>

\* variant: box.save() without the assignment of content
BoxSave_keeps_content(p) ==
    /\ pc[p] = "box_save"
    /\ LET box == local[p].box
       IN  /\ boxes' = box_save(boxes, box)
           /\ local' = [local EXCEPT ![p].box = box]
    /\ writes' = Append(writes, p)
    /\ Goto(p, "purge_box")
    /\ UNCHANGED <<stories, purges, emails, history>>

\* box.content = content; box.save()
BoxSave(p) ==
    /\ pc[p] = "box_save"
    /\ LET box == [local[p].box EXCEPT !.content = local[p].content]
       IN  /\ boxes' = box_save(boxes, box)
           /\ local' = [local EXCEPT ![p].box = box]
    /\ writes' = Append(writes, p)
    /\ Goto(p, "purge_box")
    /\ UNCHANGED <<stories, purges, emails, history>>

PurgeBox(p) ==
    /\ pc[p] = "purge_box"
    /\ purges' = purge_url(purges, BoxPath)
    /\ Goto(p, "purge_page")
    /\ UNCHANGED <<stories, boxes, emails, history, local, writes>>

\* the last statement of update_successstories_supernav; send_email_to_psf
\* then does nothing, the record being published
PurgePage(p) ==
    /\ pc[p] = "purge_page"
    /\ purges' = purge_url(purges, get_absolute_url(local[p].instance))
    /\ Finish(p, "ok")
    /\ UNCHANGED <<stories, boxes, emails, history, writes>>

SendEmail(p, transportOk) ==
    /\ pc[p] = "send_email"
    /\ emails' = email_send(emails, Message(local[p].instance), transportOk)
    /\ Finish(p, IF transportOk THEN "ok" ELSE "TransportError")
    /\ UNCHANGED <<stories, boxes, purges, history, writes>>

NextConc ==
    \E p \in Procs :
        \/ \E pub \in BOOLEAN, feat \in BOOLEAN, w \in SaveWeights, raw \in BOOLEAN :
               Begin(p, pub, feat, w, raw)
        \/ GetOrCreate(p)
        \/ BoxSave(p)
        \/ PurgeBox(p)
        \/ PurgePage(p)
        \/ \E transportOk \in BOOLEAN : SendEmail(p, transportOk)

SpecConc == InitConc /\ [][NextConc]_vars

----------------------------------------------------------------------------
(* Properties *)

\* the call a step has just added to the history
Called == Len(history') = Len(history) + 1
NewCall == history'[Len(history')]
LastCall == history[Len(history)]

Invalid(r) == (r.featured /\ r.weight = 0) \/ r.weight > 100

\* a save that got past validation, so that the row was written and post_save sent
Persisting(c) == c.op = "save" /\ c.result # "ValidationError"

Delivered(em) == {i \in 1..Len(em) : em[i].delivered}

Labelled(bx) == {b \in bx : b.label = "supernav-python-success-stories"}

\* C1: clean raises ValidationError exactly when (featured and weight = 0) or
\* weight > 100, and otherwise returns with no side effect; in particular
\* featured with weight 0 fails, not featured with weight 0 passes, weight 101
\* fails and weight 100 passes whatever featured is.
C1_CleanFailsExactly ==
    \A i \in 1..Len(history) :
        history[i].op = "clean" =>
            LET r == history[i].instance
                failed == history[i].result # "ok"
            IN  /\ failed <=> Invalid(r)
                /\ (r.featured /\ r.weight = 0) => failed
                /\ (~r.featured /\ r.weight = 0) => ~failed
                /\ r.weight = 101 => failed
                /\ r.weight = 100 => ~failed
                /\ stories = [s \in Slugs |-> NoStory]
                /\ boxes = {} /\ purges = <<>> /\ emails = <<>>

C1_Witness ==
    /\ Len(history) = 1
    /\ LastCall.op = "clean"
    /\ LastCall.instance.weight = 101
    /\ ~LastCall.instance.featured
    /\ LastCall.result = "weight cannot exceed 100"

\* C2: a record passes validation only if 0 <= weight <= 100.
C2_PassedWeightInRange ==
    \A i \in 1..Len(history) :
        (history[i].op = "clean" /\ history[i].result = "ok") =>
            (0 <= history[i].instance.weight /\ history[i].instance.weight <= 100)

\* C3: a save of a record that violates a validation rule reports the
\* validation error, stores nothing and triggers neither receiver; no
\* persisted record is featured with weight 0 or has a weight above 100.
C3_Step ==
    Called =>
        /\ Invalid(NewCall.instance) =>
               /\ NewCall.result = "ValidationError"
               /\ UNCHANGED <<stories, boxes, purges, emails>>
        /\ \A s \in Slugs : stories'[s] # NoStory => ~Invalid(stories'[s])

Notifying(c) == Persisting(c) /\ ~c.raw /\ ~c.instance.is_published

C4_Step ==
    Called =>
        LET c == NewCall
            r == c.instance
        IN  /\ Notifying(c) =>
                   /\ Len(emails') = Len(emails) + 1
                   /\ SubSeq(emails', 1, Len(emails)) = emails
                   /\ LET e == emails'[Len(emails')]
                      IN  /\ e.msg.subject = "New success story submission: " \o r.name
                          /\ e.msg.to = <<"ewa@python.org", "berker.peksag@gmail.com">>
                          /\ e.msg.headers.ReplyTo = r.author_email
                          /\ e.delivered <=> c.result = "ok"
            /\ (Persisting(c) /\ r.is_published) => emails' = emails
            /\ Len(emails') = Cardinality({i \in 1..Len(history') : Notifying(history'[i])})

C4_OneEmailPerUnpublishedSave == [][C4_Step]_vars

C4_Witness ==
    /\ Len(history) = 2
    /\ Notifying(history[1]) /\ Notifying(history[2])
    /\ history[1].instance.slug = history[2].instance.slug
    /\ Len(emails) = 2
    /\ emails[1].delivered /\ emails[2].delivered
    /\ emails[2].msg.headers.ReplyTo = history[2].instance.author_email

\* C5: a non-raw save of a published and featured record creates the box if it
\* is absent, sets its content to the fragment rendered from the record, then
\* purges the box path and then the record's detail URL, and sends no email.
Featuring(c) ==
    Persisting(c) /\ ~c.raw /\ c.instance.is_published /\ c.instance.featured

C5_Step ==
    (Called /\ Featuring(NewCall)) =>
        LET r == NewCall.instance IN
        /\ Cardinality(Labelled(boxes')) = 1
        /\ \A b \in Labelled(boxes') : b.content = Render(r)
        /\ Labelled(boxes) # {} => {b.id : b \in boxes'} = {b.id : b \in boxes}
        /\ Labelled(boxes) = {} => Cardinality(boxes') = Cardinality(boxes) + 1
        /\ purges' = purges \o <<"/box/supernav-python-success-stories/",
                                  get_absolute_url(r)>>
        /\ emails' = emails

C5_FeaturedSaveUpdatesBox == [][C5_Step]_vars

C5_Witness ==
    /\ Len(history) = 2
    /\ Featuring(history[1]) /\ Featuring(history[2])
    /\ history[1].instance.slug # history[2].instance.slug
    /\ Len(purges) = 4
    /\ \E b \in boxes : b.content = Render(history[2].instance)

\* C6: a non-raw save of a published, not featured record purges the record's
\* detail URL once and changes nothing else (no box change, no box purge, no
\* email); a non-raw save of an unpublished record changes neither the box
\* nor the purge log.
C6_Step ==
    (Called /\ Persisting(NewCall) /\ ~NewCall.raw) =>
        LET r == NewCall.instance IN
        /\ (r.is_published /\ ~r.featured) =>
               /\ purges' = Append(purges, get_absolute_url(r))
               /\ boxes' = boxes
               /\ emails' = emails
        /\ ~r.is_published => (boxes' = boxes /\ purges' = purges)

C6_PlainSaveOnlyPurgesPage == [][C6_Step]_vars

C6_Witness ==
    /\ Len(history) = 2
    /\ Featuring(history[1])
    /\ Persisting(history[2]) /\ ~history[2].raw
    /\ history[2].instance.is_published /\ ~history[2].instance.featured
    /\ Len(purges) = 3
    /\ purges[3] = get_absolute_url(history[2].instance)
    /\ boxes # {}

\* C7: a raw save sends no email, creates or changes no box and purges
\* nothing, whatever is_published, featured and weight are.
C7_Step ==
    (Called /\ NewCall.op = "save" /\ NewCall.raw) =>
        UNCHANGED <<boxes, purges, emails>>

C7_RawSaveHasNoSideEffect == [][C7_Step]_vars

C7_Witness ==
    /\ Len(history) = 2
    /\ \A i \in 1..2 : history[i].raw /\ history[i].result = "ok"
    /\ history[1].instance.is_published /\ history[1].instance.featured
    /\ ~history[2].instance.is_published
    /\ stories[history[1].instance.slug] = history[1].instance
    /\ stories[history[2].instance.slug] = history[2].instance
    /\ boxes = {} /\ purges = <<>> /\ emails = <<>>

\* C8: when the transport fails in a non-raw save of an unpublished record the
\* save returns the error, the record stays persisted, no email counts as
\* sent, and no later step sends it (the send log is never rewritten).
C8_Step ==
    /\ \A i \in 1..Len(emails) : emails'[i] = emails[i]
    /\ (Called /\ Notifying(NewCall)) =>
           LET c == NewCall IN
           /\ c.result = "TransportError" <=> ~emails'[Len(emails')].delivered
           /\ c.result = "TransportError" =>
                  /\ stories'[c.instance.slug] = c.instance
                  /\ Delivered(emails') = Delivered(emails)
    /\ (Called /\ ~Notifying(NewCall)) => NewCall.result # "TransportError"

C8_TransportFailurePropagates == [][C8_Step]_vars

C8_Witness ==
    /\ Len(history) = 2
    /\ history[1].result = "TransportError"
    /\ history[2].result = "ok"
    /\ history[2].instance.slug # history[1].instance.slug
    /\ history[2].instance.is_published
    /\ stories[history[1].instance.slug] = history[1].instance
    /\ Len(emails) = 1 /\ Delivered(emails) = {}

\* C9: at most one box labelled 'supernav-python-success-stories' exists; it
\* exists iff some non-raw save of a published and featured record has
\* occurred, and its content is the fragment rendered by the latest such save.
Featurings == {i \in 1..Len(history) : Featuring(history[i])}
LatestFeaturing == CHOOSE i \in Featurings : \A j \in Featurings : j <= i

C9_BoxHoldsLatestFeatured ==
    /\ Cardinality(Labelled(boxes)) <= 1
    /\ Labelled(boxes) # {} <=> Featurings # {}
    /\ Featurings # {} =>
           \A b \in Labelled(boxes) : b.content = Render(history[LatestFeaturing].instance)

C9_Witness ==
    /\ Len(history) = 2
    /\ Featuring(history[1])
    /\ Persisting(history[2]) /\ ~history[2].raw
    /\ history[2].instance.slug = history[1].instance.slug
    /\ history[2].instance.featured /\ ~history[2].instance.is_published
    /\ stories[history[1].instance.slug] = history[2].instance
    /\ \E b \in boxes : b.content = Render(history[1].instance)

\* C10: once two concurrent non-raw saves of two different published and
\* featured stories have both finished, exactly one labelled box exists and
\* its content is the fragment of the save whose box.save() ran last: one of
\* the two fragments, never the content that was there before.
BothFeatured ==
    \A p \in Procs :
        /\ pc[p] = "done"
        /\ local[p].result = "ok"
        /\ ~local[p].raw
        /\ local[p].instance.is_published /\ local[p].instance.featured

C10_LastWriteWins ==
    BothFeatured =>
        /\ Cardinality(Labelled(boxes)) = 1
        /\ Len(writes) = 2
        /\ \A b \in Labelled(boxes) :
               /\ b.content = Render(local[writes[2]].instance)
               /\ b.content \in {Render(local[p].instance) : p \in Procs}
               /\ b.content # Render(OldStory)
               /\ b.content # EmptyContent

C10_Witness ==
    /\ BothFeatured
    /\ writes = <<2, 1>>
    /\ purges[1] = purges[2]
    /\ Cardinality(boxes) = 1
    /\ \E b \in boxes : b.id = 1 /\ b.content = Render(local[1].instance)

====
